---- MODULE Spec2Model ----
(***************************************************************************)
(* File IO internal calls of mono/metadata/file-io.c.                      *)
(*                                                                         *)
(* Every icall is one action.  An action draws the icall's arguments and   *)
(* the outcome of every native (io-layer / Win32) call it makes, and       *)
(* records in op/args/ret/error/calls what the caller observes and which   *)
(* calls were made in which order.  The thread's last-error value, the     *)
(* open file behind the handle and the registered path remapper persist    *)
(* from one icall to the next.                                             *)
(*                                                                         *)
(* Scaling: a 32-bit quantity is WordBits bits wide, a 64-bit quantity is  *)
(* two such words.  Signed values are two's complement of that width.      *)
(* Strings are sequences of code units (MonoString: UTF-16 units, char*:   *)
(* UTF-8 bytes); NULL is the one sequence that is no string.               *)
(***************************************************************************)
EXTENDS Integers, Sequences, FiniteSets, TLC

\* ------------------------------------------------------------------ bounds
\* Width, in bits, that stands for 32 bits (gint32, guint32, DWORD).
WordBits == 2
\* Longest native directory enumeration drawn for GetFileSystemEntries.
MaxEntries == 3

\* ---------------------------------------------------------------- integers
RECURSIVE Pow2(_)
Pow2(n) == IF n = 0 THEN 1 ELSE 2 * Pow2(n - 1)

WordMod == Pow2(WordBits)
LongMod == WordMod * WordMod
Word == 0 .. WordMod - 1
Int32 == -(WordMod \div 2) .. (WordMod \div 2) - 1
Int64 == -(LongMod \div 2) .. (LongMod \div 2) - 1

\* Conversion of any integer to guint32 / guint64, and back to the signed types.
ToU32(x) == x % WordMod
ToU64(x) == x % LongMod
ToS32(x) == LET u == x % WordMod IN IF u >= WordMod \div 2 THEN u - WordMod ELSE u
ToS64(x) == LET u == x % LongMod IN IF u >= LongMod \div 2 THEN u - LongMod ELSE u
\* x & 0xFFFFFFFF and x >> 32 of a gint64 (arithmetic shift).
LowWord(x) == x % WordMod
HighWordS(x) == (x - (x % WordMod)) \div WordMod

RECURSIVE BitAnd(_, _)
BitAnd(a, b) ==
    IF a = 0 \/ b = 0 THEN 0
    ELSE (a % 2) * (b % 2) + 2 * BitAnd(a \div 2, b \div 2)
BitOr(a, b) == a + b - BitAnd(a, b)

Min(a, b) == IF a < b THEN a ELSE b
Max(a, b) == IF a < b THEN b ELSE a

\* ------------------------------------------------------------- error codes
\* Values of the io-layer / Win32 headers the file includes (line 28).
ERROR_SUCCESS == 0
ERROR_FILE_NOT_FOUND == 2
ERROR_SHARING_VIOLATION == 32
\* What a failing native call may leave in the last-error slot: the two codes
\* the file tests for and one more (5, access denied).
FailCodes == {ERROR_FILE_NOT_FOUND, ERROR_SHARING_VIOLATION, 5}

\* ----------------------------------------------------------------- strings
NULL == <<-1>>
SEP == 47
DOT == 46
\* A UTF-16 unit in the surrogate range; alone it makes a name ill-formed.
IsSurrogate(u) == u >= 55296 /\ u <= 57343

RECURSIVE EncodeUnits(_)
EncodeUnits(s) ==
    IF s = <<>> THEN <<>>
    ELSE LET u == Head(s) IN
         (IF u < 128 THEN <<u>>
          ELSE <<192 + (u \div 64), 128 + (u % 64)>>) \o EncodeUnits(Tail(s))

\* g_utf16_to_utf8 / mono_string_to_utf8 on units below U+0800 and lone
\* surrogates: NULL when the input is not well-formed UTF-16.
g_utf16_to_utf8(s) ==
    IF \E i \in 1 .. Len(s) : IsSurrogate(s[i]) THEN NULL ELSE EncodeUnits(s)

RECURSIVE DecodeBytes(_)
DecodeBytes(b) ==
    IF b = <<>> THEN <<>>
    ELSE IF Head(b) < 128 THEN <<Head(b)>> \o DecodeBytes(Tail(b))
    ELSE IF Head(b) >= 192 /\ Head(b) < 224 /\ Len(b) >= 2
            /\ b[2] >= 128 /\ b[2] < 192
         THEN LET r == DecodeBytes(Tail(Tail(b))) IN
              IF r = NULL THEN NULL
              ELSE <<(Head(b) - 192) * 64 + (b[2] - 128)>> \o r
    ELSE NULL

\* mono_string_new_len / mono_string_new: UTF-8 bytes to a MonoString,
\* NULL when the bytes do not decode.
mono_string_new_len(b) ==
    LET r == DecodeBytes(b) IN
    IF \E i \in 1 .. Len(r) : r[i] = -1 THEN NULL ELSE r

RECURSIVE StripTrailingSep(_)
StripTrailingSep(s) ==
    IF s # <<>> /\ s[Len(s)] = SEP THEN StripTrailingSep(SubSeq(s, 1, Len(s) - 1))
    ELSE s

\* g_build_filename (dir, name, NULL) for a name without separators.
g_build_filename(dir, name) ==
    IF dir = <<>> THEN name ELSE StripTrailingSep(dir) \o <<SEP>> \o name

\* ------------------------------------------------------------------ events
\* One entry of the call trace of an icall: the function, whether it reported
\* success, its argument, the code it left in the last-error slot and the
\* data it returned.
Ev(fn, ok, arg) ==
    [fn |-> fn, ok |-> ok, arg |-> arg, err |-> 0, data |-> <<>>]
\* The entry of a native call with outcome o.
EvO(fn, o, arg) ==
    [fn |-> fn, ok |-> o.ok, arg |-> arg, err |-> o.err, data |-> o.data]
SET_ERROR == Ev("*error=ERROR_SUCCESS", TRUE, <<>>)
\* Outcome of one native call: ok with its data, or the code it leaves in
\* the last-error slot.
Okay(data) == [ok |-> TRUE, data |-> data, err |-> 0]
Fail(e) == [ok |-> FALSE, data |-> <<>>, err |-> e]
Outcomes(dataSet) == {Okay(d) : d \in dataSet} \cup {Fail(e) : e \in FailCodes}
\* The io-layer / Win32 entry points the icalls call.
NativeFns ==
    {"CreateDirectory", "RemoveDirectory", "FindFirstFile", "FindNextFile",
     "FindClose", "GetCurrentDirectory", "SetCurrentDirectory", "MoveFile",
     "ReplaceFile", "CopyFile", "DeleteFile", "GetFileAttributes",
     "GetFileAttributesEx", "SetFileAttributes", "GetFileType", "CreateFile",
     "CloseHandle", "ReadFile", "WriteFile", "SetFilePointer",
     "FlushFileBuffers", "GetFileSize", "SetEndOfFile", "SetFileTime",
     "LockFile", "UnlockFile"}

\* ----------------------------------------------------------- path remapper
\* The functions a host may register (RemapPathFunction, lines 1135-1149):
\*   "zero"   reports 0: no remapping available;
\*   "prefix" maps p to "r" p, terminator as the last byte of the buffer;
\*   "slack"  maps p to "s" p and asks for two bytes more than it writes;
\*   "noterm" maps p to "n" p and writes no terminator;
\*   "raw"    maps p to the byte 0xFF and p, which is not UTF-8.
NoFunc == "NULL"
RemapFuncs == {"zero", "prefix", "slack", "noterm", "raw"}

\* Return value of func (path, buffer, buffer_len): the size needed.
RemapSize(func, p) ==
    CASE func = "zero" -> 0
      [] func = "prefix" -> Len(p) + 2
      [] func = "slack" -> Len(p) + 4
      [] func = "noterm" -> Len(p) + 1
      [] func = "raw" -> Len(p) + 2

\* Content of a buffer of RemapSize bytes after func filled it.
RemapFill(func, p) ==
    CASE func = "prefix" -> <<114>> \o p \o <<0>>
      [] func = "slack" -> <<115>> \o p \o <<0, 120, 0>>
      [] func = "noterm" -> <<110>> \o p
      [] func = "raw" -> <<255>> \o p \o <<0>>
      [] OTHER -> <<>>

\* memchr (buf, '\0', len): index of the first terminator, 0 when none.
FirstNul(buf) ==
    IF \E i \in 1 .. Len(buf) : buf[i] = 0
    THEN CHOOSE i \in 1 .. Len(buf) :
             buf[i] = 0 /\ \A j \in 1 .. i - 1 : buf[j] # 0
    ELSE 0

\* One call g_RemapPathFunc (path, buffer, buffer_len) in the trace, with
\* what it gave: the size for the query, the bytes written for the fill.
RemapCall(path, buffer, buffer_len, data) ==
    [fn |-> "RemapPathFunc", ok |-> TRUE,
     arg |-> [path |-> path, buffer |-> buffer, buffer_len |-> buffer_len],
     err |-> 0, data |-> data]

\* call_remapper with a buffer one byte short of the size reported.
call_remapper_ShortBuffer(func, utf8_path) ==
    IF func = NoFunc THEN [len |-> 0, buf |-> NULL, trace |-> <<>>]
    ELSE LET len == RemapSize(func, utf8_path)
             q == RemapCall(utf8_path, "NULL", 0, <<len>>)
         IN  IF len = 0 THEN [len |-> 0, buf |-> NULL, trace |-> <<q>>]
             ELSE [len |-> len,
                   buf |-> RemapFill(func, utf8_path),
                   trace |-> <<q, Ev("g_new", TRUE, <<len - 1>>),
                               RemapCall(utf8_path, "buf", len,
                                         RemapFill(func, utf8_path))>>]

\* call_remapper: [len, buf, trace].
call_remapper(func, utf8_path) ==
    IF func = NoFunc THEN [len |-> 0, buf |-> NULL, trace |-> <<>>]
    ELSE LET len == RemapSize(func, utf8_path)
             q == RemapCall(utf8_path, "NULL", 0, <<len>>)
         IN  IF len = 0 THEN [len |-> 0, buf |-> NULL, trace |-> <<q>>]
             ELSE [len |-> len,
                   buf |-> RemapFill(func, utf8_path),
                   trace |-> <<q, Ev("g_new", TRUE, <<len>>),
                               RemapCall(utf8_path, "buf", len,
                                         RemapFill(func, utf8_path))>>]

\* remap_path: [ok, new_path, trace].
remap_path(func, path) ==
    IF func = NoFunc THEN [ok |-> FALSE, new_path |-> NULL, trace |-> <<>>]
    ELSE LET utf8_path == g_utf16_to_utf8(path)
             r == call_remapper(func, utf8_path)
         IN  IF r.len = 0
             THEN [ok |-> FALSE, new_path |-> NULL,
                   trace |-> r.trace \o <<Ev("g_free (utf8_path)", TRUE, <<>>)>>]
             ELSE LET nul == FirstNul(r.buf)
                      len == IF nul # 0 THEN nul - 1 ELSE r.len
                      str == mono_string_new_len(SubSeq(r.buf, 1, len))
                  IN  [ok |-> str # NULL,
                       new_path |-> str,
                       trace |-> r.trace \o <<Ev("g_free (utf8_path)", TRUE, <<>>),
                                               Ev("g_free (buf)", TRUE, <<>>)>>]

\* get_remapped_path: [path, trace].
get_remapped_path(func, path) ==
    LET r == remap_path(func, path) IN
    [path |-> IF r.ok THEN r.new_path ELSE path, trace |-> r.trace]

\* ------------------------------------------------------------------- state
VARIABLES
    lastError,      \* the calling thread's last-error value (GetLastError)
    g_RemapPathFunc,\* the registered remapper, NoFunc when none
    fpos,           \* file pointer of the open handle
    flen,           \* length of the file behind the handle
    ftime,          \* its three timestamps, in ticks
    op,             \* the icall that ran last
    args,           \* its arguments
    ret,            \* its return value and out-parameters other than error
    error,          \* its error out-parameter
    calls,          \* its call trace
    frame           \* a remap_path call running step by step: its position
                    \* and locals

vars == <<lastError, g_RemapPathFunc, fpos, flen, ftime, op, args, ret, error, calls,
          frame>>
env == <<lastError, g_RemapPathFunc, fpos, flen, ftime>>

\* No remap_path call is running step by step.
NoFrame == [pc |-> "none", utf8_path |-> <<>>, tested |-> "NULL", invoked |-> <<>>,
            len |-> 0, buf |-> <<>>]

\* MonoString paths handed in by callers: "d" and "é/".
Paths == {<<100>>, <<233, SEP>>}

Init ==
    /\ lastError = ERROR_SUCCESS
    /\ g_RemapPathFunc = NoFunc
    /\ fpos = 0
    /\ flen = 0
    /\ ftime = [creation |-> 0, access |-> 0, write |-> 0]
    /\ op = "none"
    /\ args = <<>>
    /\ ret = <<>>
    /\ error = ERROR_SUCCESS
    /\ calls = <<>>
    /\ frame = NoFrame

\* The calling thread is between two icalls.
Idle == op = "none"

\* The caller takes the result of the icall that ran; the next may start.
Return ==
    /\ ~Idle
    /\ frame.pc \in {"none", "done"}
    /\ frame' = NoFrame
    /\ op' = "none"
    /\ args' = <<>>
    /\ ret' = <<>>
    /\ error' = ERROR_SUCCESS
    /\ calls' = <<>>
    /\ UNCHANGED env

\* mono_unity_register_path_remapper, for the functions of the set funcs.
RegisterPathRemapper(funcs) ==
    \E func \in funcs :
        /\ Idle
        /\ g_RemapPathFunc' = func
        /\ op' = "register_path_remapper"
        /\ args' = <<func>>
        /\ ret' = <<>>
        /\ error' = ERROR_SUCCESS
        /\ calls' = <<>>
        /\ UNCHANGED <<lastError, fpos, flen, ftime, frame>>

\* What every icall leaves for its caller.
Record(o, a, r, e, c) ==
    /\ op' = o
    /\ args' = a
    /\ ret' = r
    /\ error' = e
    /\ calls' = c
    /\ UNCHANGED frame

\* The shape shared by the icalls that reset *error, make one native call
\* and copy GetLastError () into *error when it returned FALSE.
OneNativeCall(o, a, native, narg, pre) ==
    \E n \in Outcomes({<<>>}) :
        /\ Idle
        /\ lastError' = IF n.ok THEN lastError ELSE n.err
        /\ Record(o, a, n.ok,
                  IF n.ok THEN ERROR_SUCCESS ELSE lastError',
                  pre \o <<SET_ERROR, EvO(native, n, narg)>>)
        /\ UNCHANGED <<g_RemapPathFunc, fpos, flen, ftime>>

\* The same for an icall whose only argument is one path.
OnePathCall(o, native) ==
    \E path \in Paths :
        LET r == get_remapped_path(g_RemapPathFunc, path) IN
        OneNativeCall(o, <<path>>, native, r.path, r.trace)

\* The same for an icall that takes a source and a destination path.
TwoPathCall(o, native) ==
    \E path \in Paths, dest \in Paths :
        LET r == get_remapped_path(g_RemapPathFunc, path)
            d == get_remapped_path(g_RemapPathFunc, dest)
        IN  OneNativeCall(o, <<path, dest>>, native, r.path \o <<0>> \o d.path,
                          r.trace \o d.trace)

CreateDirectory == OnePathCall("CreateDirectory", "CreateDirectory")
RemoveDirectory == OnePathCall("RemoveDirectory", "RemoveDirectory")
SetCurrentDirectory == OnePathCall("SetCurrentDirectory", "SetCurrentDirectory")
DeleteFile == OnePathCall("DeleteFile", "DeleteFile")
MoveFile == TwoPathCall("MoveFile", "MoveFile")

\* CopyFile passes !overwrite as bFailIfExists.
CopyFile ==
    \E path \in Paths, dest \in Paths, overwrite \in BOOLEAN :
        LET r == get_remapped_path(g_RemapPathFunc, path)
            d == get_remapped_path(g_RemapPathFunc, dest)
        IN  OneNativeCall("CopyFile", <<path, dest, overwrite>>, "CopyFile",
                          r.path \o <<0>> \o d.path \o <<IF overwrite THEN 0 ELSE 1>>,
                          r.trace \o d.trace)

\* ReplaceFile: the three names are remapped in turn, then the native call
\* gets destination, source, backup.
ReplaceFile ==
    \E src \in Paths, dst \in Paths, ignoreMetadataErrors \in BOOLEAN :
        LET s == get_remapped_path(g_RemapPathFunc, src)
            d == get_remapped_path(g_RemapPathFunc, dst)
            b == get_remapped_path(g_RemapPathFunc, dst \o <<126>>)
        IN  OneNativeCall("ReplaceFile", <<src, dst, ignoreMetadataErrors>>,
                          "ReplaceFile", d.path \o <<0>> \o s.path \o <<0>> \o b.path,
                          s.trace \o d.trace \o b.trace)

\* ---------------------------------------------------- GetCurrentDirectory
MAX_PATH == 260

\* What the native GetCurrentDirectory may return for a buffer of `length`
\* units: 0 (failure), a count that fits, or a count above length (buffer
\* too small).  The count of a call that filled the buffer is the string
\* length with the terminator (io-layer) or without it (Win32).
CwdReturns(length) == {0, 3, length - 1, length, length + 1, length + 2}

\* ves_icall_System_IO_MonoIO_GetCurrentDirectory as a function of the
\* native returns r1, r2 and the failure code e: [result, error, le, trace].
\* result stands for the returned string (the count the filling call gave),
\* NULL when none.
GetCurrentDirectoryResult(le, r1, r2, e) ==
    LET len == MAX_PATH + 1
        le1 == IF r1 = 0 THEN e ELSE le
        t1 == <<SET_ERROR, EvO("GetCurrentDirectory",
                               IF r1 = 0 THEN Fail(e) ELSE Okay(<<r1>>), <<len>>)>>
        retry == r1 > len
        le2 == IF retry /\ r2 = 0 THEN e ELSE le1
        res_len == IF retry THEN (IF r2 = r1 THEN 1 ELSE 0) ELSE r1
        t2 == IF retry
              THEN t1 \o <<EvO("GetCurrentDirectory",
                                IF r2 = 0 THEN Fail(e) ELSE Okay(<<r2>>), <<r1>>)>>
              ELSE t1
    IN  [result |-> IF res_len # 0 THEN <<IF retry THEN r2 ELSE r1>> ELSE NULL,
         error |-> IF res_len # 0 THEN ERROR_SUCCESS ELSE le2,
         le |-> le2,
         trace |-> t2]

GetCurrentDirectory ==
    /\ Idle
    /\ \E r1 \in CwdReturns(MAX_PATH + 1), e \in FailCodes :
        \E r2 \in (IF r1 > MAX_PATH + 1 THEN CwdReturns(r1) ELSE {0}) :
            LET r == GetCurrentDirectoryResult(lastError, r1, r2, e) IN
            /\ lastError' = r.le
            /\ Record("GetCurrentDirectory", <<>>, r.result, r.error, r.trace)
            /\ UNCHANGED <<g_RemapPathFunc, fpos, flen, ftime>>

\* ------------------------------------------------------ attribute resolver
INVALID_FILE_ATTRIBUTES == -1
FILE_ATTRIBUTE_READONLY == 1
FILE_ATTRIBUTE_DIRECTORY == 16
\* The managed Encrypted bit and the native one; the io-layer header gives
\* the native bit the value below.
FileAttributes_Encrypted == 16384
FILE_ATTRIBUTE_ENCRYPTED == 64

\* convert_attrs
convert_attrs(attrs) ==
    IF BitAnd(attrs, FileAttributes_Encrypted) # 0
    THEN BitOr(attrs, FILE_ATTRIBUTE_ENCRYPTED)
    ELSE attrs

\* FILETIME values and sizes as pairs of words.
FileTime(hi, lo) == [dwHighDateTime |-> hi, dwLowDateTime |-> lo]
FileTimeSamples == {FileTime(0, 1), FileTime(1, WordMod - 1), FileTime(WordMod - 1, 0)}
SizeSamples == {<<0, 0>>, <<1, WordMod - 1>>}
AttrSamples == {FILE_ATTRIBUTE_READONLY, FILE_ATTRIBUTE_DIRECTORY}

\* The path of the file that is open behind the handle: "f".
TheFile == <<102>>
\* The 64-bit tick count t as a FILETIME.
TicksToFileTime(t) == FileTime((t % LongMod) \div WordMod, t % WordMod)

\* The metadata the file system holds: WIN32_FILE_ATTRIBUTE_DATA and the
\* same fields of WIN32_FIND_DATA.  For the open file it is that file's
\* state; for another path anything.
FileData(a, c, x, w, sz) ==
    [dwFileAttributes |-> a, ftCreationTime |-> c, ftLastAccessTime |-> x,
     ftLastWriteTime |-> w, nFileSizeHigh |-> sz[1], nFileSizeLow |-> sz[2]]
NativeData(path) ==
    IF path = TheFile
    THEN {FileData(FILE_ATTRIBUTE_READONLY, TicksToFileTime(ftime.creation),
                   TicksToFileTime(ftime.access), TicksToFileTime(ftime.write),
                   <<flen \div WordMod, flen % WordMod>>)}
    ELSE {FileData(a, c, x, w, sz) :
              a \in AttrSamples, c \in FileTimeSamples, x \in {FileTime(0, 1)},
              w \in FileTimeSamples \ {FileTime(0, 1)}, sz \in SizeSamples}
\* The part of it GetFileAttributes reports.
NativeAttrs(path) ==
    {[dwFileAttributes |-> d.dwFileAttributes] : d \in NativeData(path)}

\* convert_filetime
convert_filetime(ft) ==
    ToS64(ToU64(ft.dwHighDateTime * WordMod) + ft.dwLowDateTime)

\* convert_win32_file_attribute_data
convert_win32_file_attribute_data(data, name) ==
    [attributes |-> data.dwFileAttributes,
     creation_time |-> convert_filetime(data.ftCreationTime),
     last_access_time |-> convert_filetime(data.ftLastAccessTime),
     last_write_time |-> convert_filetime(data.ftLastWriteTime),
     length |-> ToS64(BitOr(ToU64(data.nFileSizeHigh * WordMod), data.nFileSizeLow)),
     name |-> name]

\* memset (stat, 0, sizeof (MonoIOStat))
ZeroStat ==
    [attributes |-> 0, creation_time |-> 0, last_access_time |-> 0,
     last_write_time |-> 0, length |-> 0, name |-> NULL]

\* get_file_attributes, given the outcomes d of GetFileAttributes, f of
\* FindFirstFile and c of FindClose: [res, le, trace].
get_file_attributes(path, le, d, f, c) ==
    LET t1 == <<EvO("GetFileAttributes", d, path)>>
        t2 == t1 \o <<EvO("FindFirstFile", f, path)>>
    IN  IF d.ok THEN [res |-> d.data.dwFileAttributes, le |-> le, trace |-> t1]
        ELSE IF d.err # ERROR_SHARING_VIOLATION
        THEN [res |-> INVALID_FILE_ATTRIBUTES, le |-> d.err, trace |-> t1]
        ELSE IF ~f.ok
        THEN [res |-> INVALID_FILE_ATTRIBUTES, le |-> f.err, trace |-> t2]
        ELSE [res |-> f.data.dwFileAttributes,
              le |-> IF c.ok THEN d.err ELSE c.err,
              trace |-> t2 \o <<EvO("FindClose", c, <<>>)>>]

\* get_file_attributes_ex taking the fallback after every failure.
get_file_attributes_ex_AnyError(path, le, d, f, c) ==
    LET t1 == <<EvO("GetFileAttributesEx", d, path)>>
        t2 == t1 \o <<EvO("FindFirstFile", f, path)>>
    IN  IF d.ok THEN [res |-> TRUE, data |-> d.data, le |-> le, trace |-> t1]
        ELSE IF ~f.ok
        THEN [res |-> FALSE, data |-> <<>>, le |-> f.err, trace |-> t2]
        ELSE [res |-> TRUE, data |-> f.data,
              le |-> IF c.ok THEN d.err ELSE c.err,
              trace |-> t2 \o <<EvO("FindClose", c, <<>>)>>]

\* get_file_attributes_ex, likewise: [res, data, le, trace].
get_file_attributes_ex(path, le, d, f, c) ==
    LET t1 == <<EvO("GetFileAttributesEx", d, path)>>
        t2 == t1 \o <<EvO("FindFirstFile", f, path)>>
    IN  IF d.ok THEN [res |-> TRUE, data |-> d.data, le |-> le, trace |-> t1]
        ELSE IF d.err # ERROR_SHARING_VIOLATION
        THEN [res |-> FALSE, data |-> <<>>, le |-> d.err, trace |-> t1]
        ELSE IF ~f.ok
        THEN [res |-> FALSE, data |-> <<>>, le |-> f.err, trace |-> t2]
        ELSE [res |-> TRUE, data |-> f.data,
              le |-> IF c.ok THEN d.err ELSE c.err,
              trace |-> t2 \o <<EvO("FindClose", c, <<>>)>>]

\* Paths the attribute queries are made on: "d" and the open file "f".
AttrPaths == {<<100>>, TheFile}

\* The native outcomes, drawn only as far as the call is reached.
FindOutcomes(d, dataSet) ==
    IF ~d.ok /\ d.err = ERROR_SHARING_VIOLATION
    THEN Outcomes(dataSet) ELSE {Fail(ERROR_FILE_NOT_FOUND)}
CloseOutcomes(d, f) ==
    IF ~d.ok /\ f.ok THEN Outcomes({<<>>}) ELSE {Okay(<<>>)}

\* ves_icall_System_IO_MonoIO_GetFileAttributes
GetFileAttributes ==
    /\ Idle
    /\ \E path \in AttrPaths :
        LET r == get_remapped_path(g_RemapPathFunc, path) IN
        \E d \in Outcomes(NativeAttrs(r.path)) :
        \E f \in FindOutcomes(d, NativeAttrs(r.path)) :
        \E c \in CloseOutcomes(d, f) :
            LET g == get_file_attributes(r.path, lastError, d, f, c) IN
            /\ lastError' = g.le
            /\ Record("GetFileAttributes", <<path>>, g.res,
                      IF g.res = INVALID_FILE_ATTRIBUTES THEN g.le ELSE ERROR_SUCCESS,
                      r.trace \o <<SET_ERROR>> \o g.trace)
            /\ UNCHANGED <<g_RemapPathFunc, fpos, flen, ftime>>

\* ves_icall_System_IO_MonoIO_GetFileStat
GetFileStat ==
    /\ Idle
    /\ \E path \in AttrPaths :
        LET r == get_remapped_path(g_RemapPathFunc, path) IN
        \E d \in Outcomes(NativeData(r.path)) :
        \E f \in FindOutcomes(d, NativeData(r.path)) :
        \E c \in CloseOutcomes(d, f) :
            LET g == get_file_attributes_ex(r.path, lastError, d, f, c) IN
            /\ lastError' = g.le
            /\ Record("GetFileStat", <<path>>,
                      [result |-> g.res,
                       stat |-> IF g.res
                                THEN convert_win32_file_attribute_data(g.data, r.path)
                                ELSE ZeroStat],
                      IF g.res THEN ERROR_SUCCESS ELSE g.le,
                      r.trace \o <<SET_ERROR>> \o g.trace)
            /\ UNCHANGED <<g_RemapPathFunc, fpos, flen, ftime>>

\* ves_icall_System_IO_MonoIO_SetFileAttributes
SetFileAttributes ==
    \E path \in Paths, attrs \in {FILE_ATTRIBUTE_READONLY, FileAttributes_Encrypted} :
        LET r == get_remapped_path(g_RemapPathFunc, path) IN
        OneNativeCall("SetFileAttributes", <<path, attrs>>, "SetFileAttributes",
                      r.path \o <<0, convert_attrs(attrs)>>, r.trace)

\* ---------------------------------------------------- directory enumerator
\* A WIN32_FIND_DATA of an enumeration: cFileName (UTF-16) and attributes.
Entry(name, attrs) == [cFileName |-> name, dwFileAttributes |-> attrs]
\* The entries a native enumeration may yield: ".", "..", "a", "b", ".a"
\* and a name that is a lone surrogate.
EntryKinds ==
    {Entry(<<DOT>>, FILE_ATTRIBUTE_DIRECTORY),
     Entry(<<DOT, DOT>>, FILE_ATTRIBUTE_DIRECTORY),
     Entry(<<97>>, FILE_ATTRIBUTE_READONLY),
     Entry(<<98>>, FILE_ATTRIBUTE_ENCRYPTED),
     Entry(<<DOT, 97>>, FILE_ATTRIBUTE_DIRECTORY + FILE_ATTRIBUTE_READONLY),
     Entry(<<55296>>, FILE_ATTRIBUTE_READONLY)}
Enumerations == UNION {[1 .. n -> EntryKinds] : n \in 1 .. MaxEntries}
\* The attrs and mask arguments drawn.
ValueSamples == {0, FILE_ATTRIBUTE_READONLY, FILE_ATTRIBUTE_DIRECTORY}
MaskSamples ==
    {0, FILE_ATTRIBUTE_READONLY,
     FILE_ATTRIBUTE_DIRECTORY + FILE_ATTRIBUTE_READONLY, FileAttributes_Encrypted}
\* The code FindNextFile leaves when the enumeration is exhausted
\* (ERROR_NO_MORE_FILES).
NoMoreFiles == Fail(18)

\* cFileName [i] of a name, 0 from its terminator on (i counts from 0).
UnitAt(name, i) == IF i < Len(name) THEN name[i + 1] ELSE 0

\* The test of lines 361-362 for the "." and ".." entries.
IsPseudoEntry(name) ==
    \/ UnitAt(name, 0) = DOT /\ UnitAt(name, 1) = 0
    \/ UnitAt(name, 0) = DOT /\ UnitAt(name, 1) = DOT /\ UnitAt(name, 2) = 0

\* The test of line 366 without the mask.
AttrsMatch_Unmasked(data, mask, attrs) == data.dwFileAttributes = attrs

\* The test of line 366 on an entry.
AttrsMatch(data, mask, attrs) == BitAnd(data.dwFileAttributes, mask) = attrs

\* The do-while loop of lines 360-377 over the entries the enumeration
\* yields: the names array.
RECURSIVE CollectNames(_, _, _, _)
CollectNames(entries, utf8_path, mask, attrs) ==
    IF entries = <<>> THEN <<>>
    ELSE LET data == Head(entries)
             rest == CollectNames(Tail(entries), utf8_path, mask, attrs)
             utf8_result == g_utf16_to_utf8(data.cFileName)
         IN  IF IsPseudoEntry(data.cFileName) THEN rest
             ELSE IF AttrsMatch(data, mask, attrs)
             THEN IF utf8_result = NULL THEN rest
                  ELSE <<g_build_filename(utf8_path, utf8_result)>> \o rest
             ELSE rest

\* A MonoArray of strings, and the NULL returned in place of one.
Array(items) == [null |-> FALSE, items |-> items]
NullArray == [null |-> TRUE, items |-> <<>>]

\* Lines 341-355 with every failure of FindFirstFile reported.
FindFirstFailed_AlwaysError(find_error) ==
    [result |-> NullArray, error |-> find_error]

\* Lines 341-355: what is returned when FindFirstFile failed with
\* find_error.
FindFirstFailed(find_error) ==
    IF find_error = ERROR_FILE_NOT_FOUND
    THEN [result |-> Array(<<>>), error |-> ERROR_SUCCESS]
    ELSE [result |-> NullArray, error |-> find_error]

\* ves_icall_System_IO_MonoIO_GetFileSystemEntries after the two paths were
\* remapped, given the outcome first of FindFirstFile, the entries more that
\* FindNextFile yields before it returns FALSE, and the outcome close of
\* FindClose: [result, error, le, trace].
GetFileSystemEntriesResult(path, pattern, attrs, mask0, le, first, more, close) ==
    LET mask == convert_attrs(mask0)
        t1 == <<SET_ERROR, EvO("FindFirstFile", first, pattern)>>
    IN  IF ~first.ok
        THEN [result |-> FindFirstFailed(first.err).result,
              error |-> FindFirstFailed(first.err).error,
              le |-> first.err,
              trace |-> t1]
        ELSE LET names == CollectNames(<<first.data>> \o more,
                                       g_utf16_to_utf8(path), mask, attrs)
                 t2 == t1
                       \o [i \in 1 .. Len(more) |-> EvO("FindNextFile", Okay(more[i]), <<>>)]
                       \o <<EvO("FindNextFile", NoMoreFiles, <<>>),
                            EvO("FindClose", close, <<>>)>>
             IN  IF ~close.ok
                 THEN [result |-> NullArray, error |-> close.err, le |-> close.err,
                       trace |-> t2]
                 ELSE [result |-> Array([i \in 1 .. Len(names) |->
                                             mono_string_new_len(names[i])]),
                       error |-> ERROR_SUCCESS,
                       le |-> NoMoreFiles.err,
                       trace |-> t2]

GetFileSystemEntries ==
    /\ Idle
    /\ \E path \in Paths, attrs \in ValueSamples, mask \in MaskSamples :
       \E first \in {Fail(e) : e \in FailCodes} \cup {Okay(<<>>)} :
       \E enum \in (IF first.ok THEN Enumerations ELSE {<<>>}) :
       \E close \in (IF first.ok THEN Outcomes({<<>>}) ELSE {Okay(<<>>)}) :
           LET p == get_remapped_path(g_RemapPathFunc, path)
               q == get_remapped_path(g_RemapPathFunc, path \o <<SEP, 42>>)
               r == GetFileSystemEntriesResult(
                        p.path, q.path, attrs, mask, lastError,
                        IF first.ok THEN Okay(Head(enum)) ELSE first,
                        IF first.ok THEN Tail(enum) ELSE <<>>, close)
           IN  /\ lastError' = r.le
               /\ Record("GetFileSystemEntries", <<path, attrs, mask>>, r.result,
                         r.error, p.trace \o q.trace \o r.trace)
               /\ UNCHANGED <<g_RemapPathFunc, fpos, flen, ftime>>

\* ------------------------------------------------------- handle operations
\* The largest file position: positions are signed 64-bit values.
MaxPos == (LongMod \div 2) - 1
INVALID_SET_FILE_POINTER == WordMod - 1
INVALID_FILE_SIZE == WordMod - 1
FILE_BEGIN == 0
FILE_CURRENT == 1
FILE_END == 2
SeekOrigin_Begin == 0
SeekOrigin_Current == 1
SeekOrigin_End == 2
\* The code SetFilePointer leaves when the new position is out of range
\* (ERROR_NEGATIVE_SEEK).
OutOfRangeSeek == Fail(131)

\* convert_seekorigin
convert_seekorigin(origin) ==
    CASE origin = SeekOrigin_Begin -> FILE_BEGIN
      [] origin = SeekOrigin_Current -> FILE_CURRENT
      [] origin = SeekOrigin_End -> FILE_END
      [] OTHER -> FILE_CURRENT

\* The native SetFilePointer (handle, lo, &hi, method) on a file at pos of
\* length len, where o says whether the system lets the call succeed:
\* [ret, hi, pos, le, ev].  A call that succeeds with a low word equal to
\* INVALID_SET_FILE_POINTER leaves NO_ERROR in the last-error slot.
SetFilePointer(pos, len, le, lo, hi, method, o) ==
    LET dist == ToS64(ToU32(hi) * WordMod + ToU32(lo))
        base == CASE method = FILE_BEGIN -> 0
                  [] method = FILE_CURRENT -> pos
                  [] OTHER -> len
        new == base + dist
        out == IF ~o.ok THEN o
               ELSE IF new < 0 \/ new > MaxPos THEN OutOfRangeSeek
               ELSE Okay(<<LowWord(new), HighWordS(new)>>)
    IN  [ret |-> IF out.ok THEN LowWord(new) ELSE INVALID_SET_FILE_POINTER,
         hi |-> IF out.ok THEN HighWordS(new) ELSE hi,
         pos |-> IF out.ok THEN new ELSE pos,
         le |-> IF ~out.ok THEN out.err
                ELSE IF LowWord(new) = INVALID_SET_FILE_POINTER THEN ERROR_SUCCESS
                ELSE le,
         ev |-> EvO("SetFilePointer", out, <<lo, hi, method>>)]

\* ves_icall_System_IO_MonoIO_Seek: [ret, error, pos, le, trace].
SeekResult(pos, len, le, offset, origin, o) ==
    LET offset_hi == ToS32(HighWordS(offset))
        r == SetFilePointer(pos, len, le, LowWord(offset), offset_hi,
                            convert_seekorigin(origin), o)
    IN  [ret |-> ToS64(BitOr(r.ret, ToU64(r.hi * WordMod))),
         error |-> IF r.ret = INVALID_SET_FILE_POINTER THEN r.le ELSE ERROR_SUCCESS,
         pos |-> r.pos,
         le |-> r.le,
         trace |-> <<SET_ERROR, r.ev>>]

Seek ==
    /\ Idle
    /\ \E offset \in Int64, origin \in {SeekOrigin_Begin, SeekOrigin_Current,
                                        SeekOrigin_End, 3} :
       \E o \in {Okay(<<>>), Fail(5)} :
           LET r == SeekResult(fpos, flen, lastError, offset, origin, o) IN
           /\ fpos' = r.pos
           /\ lastError' = r.le
           /\ Record("Seek", [offset |-> offset, origin |-> origin], r.ret,
                     r.error, r.trace)
           /\ UNCHANGED <<g_RemapPathFunc, flen, ftime>>

\* ves_icall_System_IO_MonoIO_GetLength.  length_hi is not initialised, and
\* GetFileSize does not write it when it fails: junk is what it then holds.
GetLengthResult(len, le, o, junk) ==
    LET length == IF o.ok THEN LowWord(len) ELSE INVALID_FILE_SIZE
        length_hi == IF o.ok THEN HighWordS(len) ELSE junk
        le1 == IF ~o.ok THEN o.err
               ELSE IF length = INVALID_FILE_SIZE THEN ERROR_SUCCESS ELSE le
    IN  [ret |-> ToS64(BitOr(length, ToU64(length_hi * WordMod))),
         error |-> IF length = INVALID_FILE_SIZE THEN le1 ELSE ERROR_SUCCESS,
         le |-> le1,
         trace |-> <<SET_ERROR, EvO("GetFileSize", o, <<>>)>>]

GetLength ==
    /\ Idle
    /\ \E o \in Outcomes({<<>>}) :
       \E junk \in (IF o.ok THEN {0} ELSE Word) :
           LET r == GetLengthResult(flen, lastError, o, junk) IN
           /\ lastError' = r.le
           /\ Record("GetLength", <<>>, r.ret, r.error, r.trace)
           /\ UNCHANGED <<g_RemapPathFunc, fpos, flen, ftime>>

\* The value of a set of one element: SetLength goes on with the result of
\* a native call, a value obtained once.
TheOne(S) == CHOOSE r \in S : TRUE

\* Lines 872-878 of SetLength: after the restoring seek s4.
SetLengthRestored(s1, s2, e3, s4) ==
    [ret |-> s4.ret # INVALID_SET_FILE_POINTER,
     error |-> IF s4.ret = INVALID_SET_FILE_POINTER THEN s4.le ELSE ERROR_SUCCESS,
     pos |-> s4.pos, len |-> s2.pos, le |-> s4.le,
     trace |-> <<SET_ERROR, s1.ev, s2.ev, e3, s4.ev>>]

\* Lines 859-878 putting the position back when SetEndOfFile failed.
SetLengthTruncate_Restoring(len, s1, s2, o3, o4) ==
    LET le3 == IF o3.ok THEN s2.le ELSE o3.err
        e3 == EvO("SetEndOfFile", o3, <<>>)
    IN  IF s2.ret = INVALID_SET_FILE_POINTER
        THEN [ret |-> FALSE, error |-> s2.le, pos |-> s2.pos, len |-> len,
              le |-> s2.le, trace |-> <<SET_ERROR, s1.ev, s2.ev>>]
        ELSE IF ~o3.ok
        THEN TheOne({[ret |-> FALSE, error |-> le3, pos |-> s4.pos, len |-> len,
                      le |-> s4.le,
                      trace |-> <<SET_ERROR, s1.ev, s2.ev, e3, s4.ev>>] :
                 s4 \in {SetFilePointer(s2.pos, len, le3, LowWord(s1.ret), s1.hi,
                                        FILE_BEGIN, o4)}})
        ELSE TheOne({SetLengthRestored(s1, s2, e3, s4) :
                 s4 \in {SetFilePointer(s2.pos, s2.pos, le3, LowWord(s1.ret), s1.hi,
                                        FILE_BEGIN, o4)}})

\* Lines 859-878 seeking back with the low half of the saved position only.
SetLengthTruncate_LowOnly(len, s1, s2, o3, o4) ==
    LET le3 == IF o3.ok THEN s2.le ELSE o3.err
        e3 == EvO("SetEndOfFile", o3, <<>>)
    IN  IF s2.ret = INVALID_SET_FILE_POINTER
        THEN [ret |-> FALSE, error |-> s2.le, pos |-> s2.pos, len |-> len,
              le |-> s2.le, trace |-> <<SET_ERROR, s1.ev, s2.ev>>]
        ELSE IF ~o3.ok
        THEN [ret |-> FALSE, error |-> le3, pos |-> s2.pos, len |-> len,
              le |-> le3, trace |-> <<SET_ERROR, s1.ev, s2.ev, e3>>]
        ELSE TheOne({SetLengthRestored(s1, s2, e3, s4) :
                 s4 \in {SetFilePointer(s2.pos, s2.pos, le3, LowWord(s1.ret), 0,
                                        FILE_BEGIN, o4)}})

\* Lines 859-878 of SetLength: after the seek to length s2, SetEndOfFile
\* with outcome o3 and the seek back to the saved position offset,
\* offset_hi that the first call s1 returned.
SetLengthTruncate(len, s1, s2, o3, o4) ==
    LET le3 == IF o3.ok THEN s2.le ELSE o3.err
        e3 == EvO("SetEndOfFile", o3, <<>>)
    IN  IF s2.ret = INVALID_SET_FILE_POINTER
        THEN [ret |-> FALSE, error |-> s2.le, pos |-> s2.pos, len |-> len,
              le |-> s2.le, trace |-> <<SET_ERROR, s1.ev, s2.ev>>]
        ELSE IF ~o3.ok
        THEN [ret |-> FALSE, error |-> le3, pos |-> s2.pos, len |-> len,
              le |-> le3, trace |-> <<SET_ERROR, s1.ev, s2.ev, e3>>]
        ELSE TheOne({SetLengthRestored(s1, s2, e3, s4) :
                 s4 \in {SetFilePointer(s2.pos, s2.pos, le3, LowWord(s1.ret), s1.hi,
                                        FILE_BEGIN, o4)}})

\* Lines 849-858 of SetLength: after the call s1 that saved the position,
\* the seek to length.
SetLengthSeek(len, length, s1, o2, o3, o4) ==
    IF s1.ret = INVALID_SET_FILE_POINTER
    THEN [ret |-> FALSE, error |-> s1.le, pos |-> s1.pos, len |-> len,
          le |-> s1.le, trace |-> <<SET_ERROR, s1.ev>>]
    ELSE TheOne({SetLengthTruncate(len, s1, s2, o3, o4) :
             s2 \in {SetFilePointer(s1.pos, len, s1.le, LowWord(length),
                                    ToS32(HighWordS(length)), FILE_BEGIN, o2)}})

\* ves_icall_System_IO_MonoIO_SetLength, given the outcomes o1 .. o4 the
\* system allows its four native calls: [ret, error, pos, len, le, trace].
SetLengthResult(pos, len, le, length, o1, o2, o3, o4) ==
    TheOne({SetLengthSeek(len, length, s1, o2, o3, o4) :
        s1 \in {SetFilePointer(pos, len, le, 0, 0, FILE_CURRENT, o1)}})

\* The ways the system may fail the four calls: none, or one of them.
StepOutcomes ==
    {[i \in 1 .. 4 |-> IF i = k THEN Fail(e) ELSE Okay(<<>>)] :
         k \in 0 .. 4, e \in {ERROR_SHARING_VIOLATION, 5}}

SetLength ==
    /\ Idle
    /\ \E length \in Int64, o \in StepOutcomes :
           LET r == SetLengthResult(fpos, flen, lastError, length,
                                    o[1], o[2], o[3], o[4]) IN
           /\ fpos' = r.pos
           /\ flen' = r.len
           /\ lastError' = r.le
           /\ Record("SetLength", [length |-> length], r.ret, r.error, r.trace)
           /\ UNCHANGED <<g_RemapPathFunc, ftime>>

\* GetFileType: a type code, FILE_TYPE_UNKNOWN (0) for a file of unknown
\* type (last error NO_ERROR) and for a failed call.
GetFileType ==
    /\ Idle
    /\ \E o \in Outcomes({0, 1}) :
           LET type == IF o.ok THEN o.data ELSE 0 IN
           /\ lastError' = IF ~o.ok THEN o.err
                           ELSE IF type = 0 THEN ERROR_SUCCESS ELSE lastError
           /\ Record("GetFileType", <<>>, type,
                     IF type = 0 THEN lastError' ELSE ERROR_SUCCESS,
                     <<SET_ERROR, EvO("GetFileType", o, <<>>)>>)
           /\ UNCHANGED <<g_RemapPathFunc, fpos, flen, ftime>>

Close == OneNativeCall("Close", <<>>, "CloseHandle", <<>>, <<>>)
Flush == OneNativeCall("Flush", <<>>, "FlushFileBuffers", <<>>, <<>>)

\* Lock and Unlock pass position and length as low and high words.
LockArgs(position, length) ==
    <<LowWord(position), ToU32(HighWordS(position)),
      LowWord(length), ToU32(HighWordS(length))>>
Lock ==
    \E position \in {0, WordMod + 1}, length \in {1, MaxPos} :
        OneNativeCall("Lock", <<position, length>>, "LockFile",
                      LockArgs(position, length), <<>>)
Unlock ==
    \E position \in {0, WordMod + 1}, length \in {1, MaxPos} :
        OneNativeCall("Unlock", <<position, length>>, "UnlockFile",
                      LockArgs(position, length), <<>>)

\* The lengths a managed byte array may have: 0 .. G_MAXINT32.
ArrayLengths == 0 .. (WordMod \div 2) - 1

\* The bounds guard of lines 735 and 762: the gint32 sum, converted to the
\* unsigned type of mono_array_length for the comparison.
BeyondArray(offset, count, length) == ToU32(ToS32(offset + count)) > length

\* What the guard may evaluate to: a sum outside gint32 is a signed
\* overflow, which a build either wraps or carries out in a wider register,
\* where it compares as larger than any length.
GuardOutcomes(offset, count, length) ==
    {BeyondArray(offset, count, length)}
        \cup (IF offset + count \in Int32 THEN {} ELSE {TRUE})

\* ves_icall_System_IO_MonoIO_Read and _Write share their shape: native is
\* ReadFile or WriteFile, o its outcome with the count n it transferred:
\* [ret, error, le, trace, n].
TransferResult(native, le, beyond, offset, count, o) ==
    IF beyond
    THEN [ret |-> 0, error |-> ERROR_SUCCESS, le |-> le, trace |-> <<SET_ERROR>>,
          n |-> 0]
    ELSE LET ev == EvO(native, o, <<offset, ToU32(count)>>) IN
         IF ~o.ok
         THEN [ret |-> -1, error |-> o.err, le |-> o.err,
               trace |-> <<SET_ERROR, ev>>, n |-> 0]
         ELSE [ret |-> ToS32(o.data), error |-> ERROR_SUCCESS, le |-> le,
               trace |-> <<SET_ERROR, ev>>, n |-> o.data]

\* The counts the native call may report: ReadFile up to the bytes asked
\* for and left in the file, WriteFile up to the bytes asked for and the
\* room left below the largest position.
Transferred(beyond, count, room) ==
    IF beyond THEN {0}
    ELSE 0 .. Min(ToU32(count), room)

Read ==
    /\ Idle
    /\ \E length \in ArrayLengths, offset \in Int32, count \in Int32 :
       \E beyond \in GuardOutcomes(offset, count, length) :
       \E o \in Outcomes(Transferred(beyond, count, Max(0, flen - fpos))) :
           LET r == TransferResult("ReadFile", lastError, beyond, offset, count, o) IN
           /\ fpos' = fpos + r.n
           /\ lastError' = r.le
           /\ Record("Read", [length |-> length, offset |-> offset, count |-> count],
                     r.ret, r.error, r.trace)
           /\ UNCHANGED <<g_RemapPathFunc, flen, ftime>>

Write ==
    /\ Idle
    /\ \E length \in ArrayLengths, offset \in Int32, count \in Int32 :
       \E beyond \in GuardOutcomes(offset, count, length) :
       \E o \in Outcomes(Transferred(beyond, count, MaxPos - fpos)) :
           LET r == TransferResult("WriteFile", lastError, beyond, offset, count, o) IN
           /\ fpos' = fpos + r.n
           /\ flen' = Max(flen, fpos + r.n)
           /\ lastError' = r.le
           /\ Record("Write", [length |-> length, offset |-> offset, count |-> count],
                     r.ret, r.error, r.trace)
           /\ UNCHANGED <<g_RemapPathFunc, ftime>>

\* The FILETIME pointer without the test for a negative argument.
FileTimeArg_Literal(ticks) ==
    <<(ToU64(ticks) - (ToU64(ticks) % WordMod)) \div WordMod, ToU64(ticks) % WordMod>>

\* The FILETIME pointer SetFileTime is handed for a tick argument: NULL
\* (the empty tuple) or the two words of the value.
FileTimeArg(ticks) ==
    IF ticks < 0 THEN <<>>
    ELSE <<TicksToFileTime(ticks).dwHighDateTime, TicksToFileTime(ticks).dwLowDateTime>>

\* The native SetFileTime on one timestamp: a NULL pointer leaves it.
NativeSetTime(old, ft) == IF ft = <<>> THEN old ELSE ft[1] * WordMod + ft[2]

\* ves_icall_System_IO_MonoIO_SetFileTime: [ret, error, times, le, trace].
SetFileTimeResult(times, le, creation_time, last_access_time, last_write_time, o) ==
    LET creation_filetime == FileTimeArg(creation_time)
        last_access_filetime == FileTimeArg(last_access_time)
        last_write_filetime == FileTimeArg(last_write_time)
    IN  [ret |-> o.ok,
         error |-> IF o.ok THEN ERROR_SUCCESS ELSE o.err,
         times |-> IF o.ok
                   THEN [creation |-> NativeSetTime(times.creation, creation_filetime),
                         access |-> NativeSetTime(times.access, last_access_filetime),
                         write |-> NativeSetTime(times.write, last_write_filetime)]
                   ELSE times,
         le |-> IF o.ok THEN le ELSE o.err,
         trace |-> <<SET_ERROR,
                     EvO("SetFileTime", o,
                         <<creation_filetime, last_access_filetime,
                           last_write_filetime>>)>>]

\* The tick arguments drawn: two negative values and two times, one of
\* them with both words set.
SomeTime == WordMod + 1
TimeArgs == {-(LongMod \div 2), -1, 0, SomeTime}

SetFileTime ==
    /\ Idle
    /\ \E c \in TimeArgs, a \in TimeArgs, w \in TimeArgs :
       \E o \in {Okay(<<>>), Fail(5)} :
           LET r == SetFileTimeResult(ftime, lastError, c, a, w, o) IN
           /\ ftime' = r.times
           /\ lastError' = r.le
           /\ Record("SetFileTime", [creation |-> c, access |-> a, write |-> w],
                     r.ret, r.error, r.trace)
           /\ UNCHANGED <<g_RemapPathFunc, fpos, flen>>

\* ------------------------------------------------------- enum translators
FileShare_Read == 1
FileShare_Write == 2
FileShare_Delete == 4
FILE_SHARE_READ == 1
FILE_SHARE_WRITE == 2
FILE_SHARE_DELETE == 4
\* The largest FileShare value drawn.
MaxShare == 127

\* convert_share without the fallback for unknown bits.
convert_share_PartialOr(mono_share) ==
    BitOr(BitOr(IF BitAnd(mono_share, FileShare_Read) # 0
                THEN FILE_SHARE_READ ELSE 0,
                IF BitAnd(mono_share, FileShare_Write) # 0
                THEN FILE_SHARE_WRITE ELSE 0),
          IF BitAnd(mono_share, FileShare_Delete) # 0
          THEN FILE_SHARE_DELETE ELSE 0)

convert_share(mono_share) ==
    LET known == BitOr(BitOr(FileShare_Read, FileShare_Write), FileShare_Delete)
        share1 == IF BitAnd(mono_share, FileShare_Read) # 0
                  THEN FILE_SHARE_READ ELSE 0
        share2 == IF BitAnd(mono_share, FileShare_Write) # 0
                  THEN BitOr(share1, FILE_SHARE_WRITE) ELSE share1
        share3 == IF BitAnd(mono_share, FileShare_Delete) # 0
                  THEN BitOr(share2, FILE_SHARE_DELETE) ELSE share2
    IN  IF mono_share - BitAnd(mono_share, known) # 0 THEN 0 ELSE share3

\* convert_share applied to a FileShare value, as Open applies it.
ConvertShare ==
    /\ Idle
    /\ \E mono_share \in 0 .. MaxShare :
           Record("convert_share", <<mono_share>>, convert_share(mono_share),
                  ERROR_SUCCESS, <<>>)
    /\ UNCHANGED env

\* ves_icall_System_IO_MonoIO_RemapPath.
RemapPath ==
    /\ Idle
    /\ \E path \in Paths :
           LET r == remap_path(g_RemapPathFunc, path) IN
           Record("RemapPath", <<path>>,
                  [result |-> r.ok, new_path |-> r.new_path],
                  ERROR_SUCCESS, r.trace)
    /\ UNCHANGED env

\* ------------------------------------- RemapPath against a registering thread
\* remap_path run statement by statement by the calling thread, while the
\* host may call mono_unity_register_path_remapper from another thread at
\* any moment.  frame.pc is the statement the calling thread is at:
\*   "remap_path"    the test of g_RemapPathFunc in remap_path;
\*   "call_remapper" the test of g_RemapPathFunc in call_remapper;
\*   "query"         the call g_RemapPathFunc (path, *buf, 0);
\*   "fill"          the call g_RemapPathFunc (path, *buf, len);
\*   "memchr"        the rest of remap_path;
\*   "done"          remap_path returned;
\*   "crashed"       the thread called through a null pointer.
\* g_RemapPathFunc is a plain static, read and written without
\* synchronisation.

\* What g_new leaves in memory it does not initialise.
JunkBytes == {0, 120}

\* A buffer of len bytes that held the byte junk everywhere, after func
\* was asked to fill it.  A function that needs more than len bytes leaves
\* a content the contract calls undefined: its first len bytes, or nothing.
FilledBuffers(func, p, len, junk) ==
    LET written == RemapFill(func, p)
        blank == [i \in 1 .. len |-> junk]
    IN  IF Len(written) <= len
        THEN {written \o [i \in 1 .. len - Len(written) |-> junk]}
        ELSE {SubSeq(written, 1, len), blank}

\* The function a call statement calls when the last test of
\* g_RemapPathFunc read tested: call_remapper is inline and nothing is
\* called between the test of line 1156 and the call of line 1160, so the
\* build may reuse the value tested or load the variable again; after a
\* call it has to load it again.
LoadsForCall(pc, tested, current) ==
    IF pc = "query" THEN {tested, current} ELSE {current}

\* The calling thread enters ves_icall_System_IO_MonoIO_RemapPath.
RaceEnter ==
    /\ Idle
    /\ frame.pc = "none"
    /\ \E path \in Paths :
           /\ op' = "RemapPath"
           /\ args' = <<path>>
           /\ frame' = [NoFrame EXCEPT !.pc = "remap_path"]
    /\ ret' = <<>>
    /\ calls' = <<>>
    /\ UNCHANGED <<env, error>>

\* remap_path returns FALSE without a string.
RaceNoPath(trace) ==
    /\ ret' = [result |-> FALSE, new_path |-> NULL]
    /\ calls' = calls \o trace
    /\ UNCHANGED <<env, op, args, error>>

\* Line 1183, then mono_string_to_utf8.
RaceTestOuter ==
    /\ frame.pc = "remap_path"
    /\ IF g_RemapPathFunc = NoFunc
       THEN /\ frame' = [frame EXCEPT !.pc = "done"]
            /\ RaceNoPath(<<>>)
       ELSE /\ frame' = [frame EXCEPT !.pc = "call_remapper",
                                      !.utf8_path = g_utf16_to_utf8(args[1])]
            /\ UNCHANGED <<env, op, args, ret, error, calls>>

\* Lines 1156-1158.
RaceTestInner ==
    /\ frame.pc = "call_remapper"
    /\ IF g_RemapPathFunc = NoFunc
       THEN /\ frame' = [frame EXCEPT !.pc = "done"]
            /\ RaceNoPath(<<Ev("g_free (utf8_path)", TRUE, <<>>)>>)
       ELSE /\ frame' = [frame EXCEPT !.pc = "query", !.tested = g_RemapPathFunc]
            /\ UNCHANGED <<env, op, args, ret, error, calls>>

\* A call through the null pointer.
RaceCrash ==
    /\ frame.pc \in {"query", "fill"}
    /\ NoFunc \in LoadsForCall(frame.pc, frame.tested, g_RemapPathFunc)
    /\ frame' = [frame EXCEPT !.pc = "crashed", !.invoked = @ \o <<NoFunc>>]
    /\ UNCHANGED <<env, op, args, ret, error, calls>>

\* Lines 1160-1165: the size query, and g_new when it is not 0.
RaceQuery ==
    /\ frame.pc = "query"
    /\ \E func \in LoadsForCall("query", frame.tested, g_RemapPathFunc) \ {NoFunc} :
       \E len \in {RemapSize(func, frame.utf8_path)} :
       \E q \in {RemapCall(frame.utf8_path, "NULL", 0, <<len>>)} :
           IF len = 0
           THEN /\ frame' = [frame EXCEPT !.pc = "done", !.invoked = @ \o <<func>>]
                /\ RaceNoPath(<<q, Ev("g_free (utf8_path)", TRUE, <<>>)>>)
           ELSE /\ frame' = [frame EXCEPT !.pc = "fill", !.len = len,
                                          !.invoked = @ \o <<func>>]
                /\ calls' = calls \o <<q, Ev("g_new", TRUE, <<len>>)>>
                /\ UNCHANGED <<env, op, args, ret, error>>

\* Line 1166: the fill call.
RaceFill ==
    /\ frame.pc = "fill"
    /\ \E func \in LoadsForCall("fill", frame.tested, g_RemapPathFunc) \ {NoFunc} :
       \E junk \in JunkBytes :
       \E buf \in FilledBuffers(func, frame.utf8_path, frame.len, junk) :
           /\ frame' = [frame EXCEPT !.pc = "memchr", !.buf = buf,
                                     !.invoked = @ \o <<func>>]
           /\ calls' = calls \o <<RemapCall(frame.utf8_path, "buf", frame.len, buf)>>
    /\ UNCHANGED <<env, op, args, ret, error>>

\* Lines 1194-1203.
RaceFinish ==
    /\ frame.pc = "memchr"
    /\ \E nul \in {FirstNul(frame.buf)} :
       \E len \in {IF nul # 0 THEN nul - 1 ELSE frame.len} :
       \E str \in {mono_string_new_len(SubSeq(frame.buf, 1, len))} :
           /\ ret' = [result |-> str # NULL, new_path |-> str]
           /\ calls' = calls \o <<Ev("g_free (utf8_path)", TRUE, <<>>),
                                  Ev("g_free (buf)", TRUE, <<>>)>>
    /\ frame' = [frame EXCEPT !.pc = "done"]
    /\ UNCHANGED <<env, op, args, error>>

\* mono_unity_register_path_remapper called by another thread.
RaceRegister ==
    /\ \E func \in RemapFuncs \cup {NoFunc} : g_RemapPathFunc' = func
    /\ UNCHANGED <<lastError, fpos, flen, ftime, op, args, ret, error, calls, frame>>

\* --------------------------------------------------------------------- Open
FileMode_CreateNew == 1
FileMode_Create == 2
FileMode_Open == 3
FileMode_OpenOrCreate == 4
FileMode_Truncate == 5
FileMode_Append == 6
CREATE_NEW == 1
CREATE_ALWAYS == 2
OPEN_EXISTING == 3
OPEN_ALWAYS == 4
TRUNCATE_EXISTING == 5
FileAccess_Read == 1
FileAccess_Write == 2
FileAccess_ReadWrite == 3
INVALID_HANDLE_VALUE == -1

convert_mode(mono_mode) ==
    CASE mono_mode = FileMode_CreateNew -> CREATE_NEW
      [] mono_mode = FileMode_Create -> CREATE_ALWAYS
      [] mono_mode = FileMode_Open -> OPEN_EXISTING
      [] mono_mode = FileMode_OpenOrCreate -> OPEN_ALWAYS
      [] mono_mode = FileMode_Truncate -> TRUNCATE_EXISTING
      [] mono_mode = FileMode_Append -> OPEN_ALWAYS
      [] OTHER -> OPEN_EXISTING

\* convert_access.  GENERIC_READ and GENERIC_WRITE are the two top bits of
\* a word: the access mask is the set of the bits that are set.
convert_access(mono_access) ==
    CASE mono_access = FileAccess_Read -> {"GENERIC_READ"}
      [] mono_access = FileAccess_Write -> {"GENERIC_WRITE"}
      [] mono_access = FileAccess_ReadWrite -> {"GENERIC_READ", "GENERIC_WRITE"}
      [] OTHER -> {"GENERIC_READ"}

\* The bits of FileOptions the icall tests, and one it does not know.  The
\* options word and the native attributes word are the sets of their bits
\* that are set: every name is one bit, all different, so | is \cup and
\* (x & bit) # 0 is membership.
FileOptionBits ==
    {"FileOptions_Encrypted", "FileOptions_DeleteOnClose",
     "FileOptions_SequentialScan", "FileOptions_RandomAccess",
     "FileOptions_Temporary", "FileOptions_Asynchronous",
     "FileOptions_WriteThrough", "FileOptions_Other"}

\* Lines 662-684: the attributes word the options give.
OptionAttributes(options) ==
    IF options # {}
    THEN (IF "FileOptions_Encrypted" \in options
          THEN {"FILE_ATTRIBUTE_ENCRYPTED"} ELSE {"FILE_ATTRIBUTE_NORMAL"})
         \cup (IF "FileOptions_DeleteOnClose" \in options
               THEN {"FILE_FLAG_DELETE_ON_CLOSE"} ELSE {})
         \cup (IF "FileOptions_SequentialScan" \in options
               THEN {"FILE_FLAG_SEQUENTIAL_SCAN"} ELSE {})
         \cup (IF "FileOptions_RandomAccess" \in options
               THEN {"FILE_FLAG_RANDOM_ACCESS"} ELSE {})
         \cup (IF "FileOptions_Temporary" \in options
               THEN {"FILE_ATTRIBUTE_TEMPORARY"} ELSE {})
         \cup (IF "FileOptions_Asynchronous" \in options
               THEN {"FILE_FLAG_OVERLAPPED"} ELSE {})
         \cup (IF "FileOptions_WriteThrough" \in options
               THEN {"FILE_FLAG_WRITE_THROUGH"} ELSE {})
    ELSE {"FILE_ATTRIBUTE_NORMAL"}

\* Lines 688-693 with the directory flag assigned, not or-ed.
OpenAttributes_Assigned(options, attrs) ==
    IF attrs # INVALID_FILE_ATTRIBUTES /\ BitAnd(attrs, FILE_ATTRIBUTE_DIRECTORY) # 0
    THEN {"FILE_FLAG_BACKUP_SEMANTICS"}
    ELSE OptionAttributes(options)

\* Lines 662-693: the attributes word handed to CreateFile, from the
\* options and the result attrs of get_file_attributes.
OpenAttributes(options, attrs) ==
    IF attrs # INVALID_FILE_ATTRIBUTES /\ BitAnd(attrs, FILE_ATTRIBUTE_DIRECTORY) # 0
    THEN OptionAttributes(options) \cup {"FILE_FLAG_BACKUP_SEMANTICS"}
    ELSE OptionAttributes(options)

\* The options drawn: none, one bit, two bits, all bits.
OptionSamples ==
    {o \in SUBSET FileOptionBits : Cardinality(o) <= 2} \cup {FileOptionBits}
\* The mode, access and share arguments drawn together.
OpenKinds ==
    {<<FileMode_Open, FileAccess_Read, FileShare_Read>>,
     <<FileMode_Append, FileAccess_Write, 0>>,
     <<FileMode_Create, FileAccess_ReadWrite, FileShare_Read + 16>>,
     <<0, 0, FileShare_Read + FileShare_Write>>}
\* What the attribute query may find at a path: a file, a directory.
OpenAttrSamples ==
    {[dwFileAttributes |-> a] :
         a \in {FILE_ATTRIBUTE_READONLY, FILE_ATTRIBUTE_DIRECTORY,
                FILE_ATTRIBUTE_DIRECTORY + FILE_ATTRIBUTE_READONLY}}

\* ves_icall_System_IO_MonoIO_Open
Open ==
    /\ Idle
    /\ \E filename \in Paths, kind \in OpenKinds, options \in OptionSamples :
        LET r == get_remapped_path(g_RemapPathFunc, filename) IN
        \E d \in Outcomes(OpenAttrSamples) :
        \E f \in FindOutcomes(d, OpenAttrSamples) :
        \E c \in CloseOutcomes(d, f) :
        \E g \in {get_file_attributes(r.path, lastError, d, f, c)} :
        \E n \in {Okay(<<>>), Fail(ERROR_FILE_NOT_FOUND), Fail(5)} :
            /\ lastError' = IF n.ok THEN g.le ELSE n.err
            /\ Record("Open",
                      [filename |-> filename, mode |-> kind[1],
                       access_mode |-> kind[2], share |-> kind[3],
                       options |-> options],
                      IF n.ok THEN 1 ELSE INVALID_HANDLE_VALUE,
                      IF n.ok THEN ERROR_SUCCESS ELSE n.err,
                      r.trace \o <<SET_ERROR>> \o g.trace
                          \o <<EvO("CreateFile", n,
                                   [name |-> r.path,
                                    access |-> convert_access(kind[2]),
                                    share |-> convert_share(kind[3]),
                                    mode |-> convert_mode(kind[1]),
                                    attributes |-> OpenAttributes(options, g.res)])>>)
            /\ UNCHANGED <<g_RemapPathFunc, fpos, flen, ftime>>

\* Every function a host may register, NULL included; the icalls that only
\* pass the remapped path on are run with the second set.
AnyFunc == RemapFuncs \cup {NoFunc}
SomeFunc == {NoFunc, "slack"}

NextPath ==
    \/ Return
    \/ RegisterPathRemapper(AnyFunc)
    \/ CreateDirectory
    \/ RemoveDirectory
    \/ GetCurrentDirectory
    \/ SetCurrentDirectory
    \/ MoveFile
    \/ ReplaceFile
    \/ CopyFile
    \/ DeleteFile
    \/ SetFileAttributes

NextAttr ==
    \/ Return
    \/ RegisterPathRemapper(SomeFunc)
    \/ GetFileAttributes
    \/ GetFileStat

NextDir ==
    \/ Return
    \/ RegisterPathRemapper(SomeFunc)
    \/ GetFileSystemEntries

NextHandle ==
    \/ Return
    \/ Seek
    \/ GetLength
    \/ SetLength
    \/ GetFileType
    \/ Close
    \/ Flush
    \/ Lock
    \/ Unlock

NextRW ==
    \/ Return
    \/ Read
    \/ Write

NextTime ==
    \/ Return
    \/ SetFileTime
    \/ GetFileStat

NextShare ==
    \/ Return
    \/ ConvertShare

NextRemap ==
    \/ Return
    \/ RegisterPathRemapper(AnyFunc)
    \/ RemapPath
    \/ DeleteFile

NextOpen ==
    \/ Return
    \/ RegisterPathRemapper(SomeFunc)
    \/ Open

NextRace ==
    \/ Return
    \/ RaceRegister
    \/ RaceEnter
    \/ RaceTestOuter
    \/ RaceTestInner
    \/ RaceQuery
    \/ RaceFill
    \/ RaceCrash
    \/ RaceFinish

SpecPath == Init /\ [][NextPath]_vars
SpecAttr == Init /\ [][NextAttr]_vars
SpecDir == Init /\ [][NextDir]_vars
SpecHandle == Init /\ [][NextHandle]_vars
SpecRW == Init /\ [][NextRW]_vars
SpecTime == Init /\ [][NextTime]_vars
SpecShare == Init /\ [][NextShare]_vars
SpecRemap == Init /\ [][NextRemap]_vars
SpecOpen == Init /\ [][NextOpen]_vars
SpecRace == Init /\ [][NextRace]_vars

\* ------------------------------------------------------------------ claims
\* The native calls of the last icall, in order.
IsNative(e) == e.fn \in NativeFns
Natives == SelectSeq(calls, IsNative)

FallibleOps ==
    {"CreateDirectory", "RemoveDirectory", "GetFileSystemEntries",
     "GetCurrentDirectory", "SetCurrentDirectory", "MoveFile", "ReplaceFile",
     "CopyFile", "DeleteFile", "GetFileAttributes", "SetFileAttributes",
     "GetFileType", "GetFileStat", "Open", "Close", "Read", "Write", "Seek",
     "Flush", "GetLength", "SetLength", "SetFileTime", "Lock", "Unlock"}

\* *error is reset before the first native call of the icall.
ErrorResetFirst ==
    \A i \in 1 .. Len(calls) :
        IsNative(calls[i]) => \E j \in 1 .. i - 1 : calls[j] = SET_ERROR
\* *error is not SUCCESS only when a native call of the icall reported failure.
ErrorHasCause ==
    error # ERROR_SUCCESS => \E i \in 1 .. Len(Natives) : ~Natives[i].ok

\* C1: every fallible icall resets *error to SUCCESS before its first native
\* call, and returns an error other than SUCCESS only if one of its native
\* calls reported failure.
C1_ErrorOnlyOnNativeFailure ==
    op \in FallibleOps => ErrorResetFirst /\ ErrorHasCause

\* The same for every icall but GetCurrentDirectory.
ErrorOnlyOnNativeFailureElsewhere ==
    op \in FallibleOps \ {"GetCurrentDirectory"} => ErrorResetFirst /\ ErrorHasCause

\* The attribute queries: the direct query failed with a sharing violation.
IsAttrQuery == op \in {"GetFileAttributes", "GetFileStat"}
DirectSharingViolation ==
    /\ IsAttrQuery
    /\ ~Natives[1].ok
    /\ Natives[1].err = ERROR_SHARING_VIOLATION
FallbackCalled == Len(Natives) >= 2 /\ Natives[2].fn = "FindFirstFile"
AttrQueryFailed ==
    IF op = "GetFileAttributes" THEN ret = INVALID_FILE_ATTRIBUTES
    ELSE ret.result = FALSE /\ ret.stat = ZeroStat
\* The 64-bit value v is the pair of words hi, lo.
IsPair(v, hi, lo) ==
    /\ v \in Int64
    /\ v % WordMod = lo
    /\ ((v % LongMod) - lo) = hi * WordMod
\* What the icall returned is the entry fd that FindFirstFile found.
ReturnsEntry(fd) ==
    IF op = "GetFileAttributes" THEN ret = fd.dwFileAttributes
    ELSE /\ ret.result = TRUE
         /\ ret.stat.attributes = fd.dwFileAttributes
         /\ IsPair(ret.stat.creation_time,
                   fd.ftCreationTime.dwHighDateTime, fd.ftCreationTime.dwLowDateTime)
         /\ IsPair(ret.stat.last_access_time,
                   fd.ftLastAccessTime.dwHighDateTime, fd.ftLastAccessTime.dwLowDateTime)
         /\ IsPair(ret.stat.last_write_time,
                   fd.ftLastWriteTime.dwHighDateTime, fd.ftLastWriteTime.dwLowDateTime)
         /\ IsPair(ret.stat.length, fd.nFileSizeHigh, fd.nFileSizeLow)

\* C2: GetFileAttributes and GetFileStat fall back to FindFirstFile on the
\* same path exactly when the direct query fails with a sharing violation;
\* if the fallback succeeds the found entry is returned with SUCCESS; after
\* any other failure of the direct query FindFirstFile is not called and
\* the icall fails with the code of the direct query.
C2_SharingViolationFallback ==
    IsAttrQuery /\ ~Natives[1].ok =>
        IF Natives[1].err = ERROR_SHARING_VIOLATION
        THEN /\ FallbackCalled
             /\ Natives[2].arg = Natives[1].arg
             /\ Natives[2].ok =>
                    ReturnsEntry(Natives[2].data) /\ error = ERROR_SUCCESS
        ELSE /\ \A i \in 1 .. Len(calls) : calls[i].fn # "FindFirstFile"
             /\ AttrQueryFailed
             /\ error = Natives[1].err

\* GetFileStat took the fallback and returned an entry with a size above
\* one word and a timestamp with the top bit set.
C2_Witness ==
    /\ op = "GetFileStat"
    /\ DirectSharingViolation
    /\ FallbackCalled
    /\ Natives[2].ok
    /\ ret.stat.length >= WordMod
    /\ ret.stat.creation_time < 0
    /\ error = ERROR_SUCCESS

IsFound(e) == e.fn \in {"FindFirstFile", "FindNextFile"} /\ e.ok
Found == SelectSeq(calls, IsFound)
ListingCompleted ==
    /\ op = "GetFileSystemEntries"
    /\ Natives[1].ok
    /\ Natives[Len(Natives)].fn = "FindClose"
    /\ Natives[Len(Natives)].ok
\* The directory path the listing is made on, and a name joined with it.
ListedDir == get_remapped_path(g_RemapPathFunc, args[1]).path
Joined(name) ==
    LET last == CHOOSE k \in 0 .. Len(ListedDir) :
                    /\ \A j \in k + 1 .. Len(ListedDir) : ListedDir[j] = SEP
                    /\ k > 0 => ListedDir[k] # SEP
    IN  SubSeq(ListedDir, 1, last) \o <<SEP>> \o name
NotPseudo(name) == name # <<DOT>> /\ name # <<DOT, DOT>>
WellFormed(name) == \A i \in 1 .. Len(name) : ~IsSurrogate(name[i])
\* ret is the entries of Found whose indices are in keep, each joined with
\* the directory, in the order of Found.
ReturnsExactly(keep) ==
    /\ ~ret.null
    /\ Len(ret.items) = Cardinality(keep)
    /\ \A i \in keep :
           ret.items[Cardinality({j \in keep : j <= i})]
               = Joined(Found[i].data.cFileName)

\* C4 as stated: a completed listing returns, in native order, exactly the
\* entries that are neither "." nor ".." and have
\* (entryAttributes & mask) == value, each joined with the directory path.
C4_ListingFiltersByMaskAndValue ==
    ListingCompleted =>
        ReturnsExactly({i \in 1 .. Len(Found) :
            /\ NotPseudo(Found[i].data.cFileName)
            /\ BitAnd(Found[i].data.dwFileAttributes, args[3]) = args[2]})

\* C4 as amended: a completed listing returns, in native order, exactly the
\* entries that are neither "." nor "..", have
\* (entryAttributes & convert_attrs (mask)) == value and whose name is
\* well-formed UTF-16, each joined with the (remapped) directory path.
C4_ListingFiltersByConvertedMask ==
    ListingCompleted =>
        ReturnsExactly({i \in 1 .. Len(Found) :
            /\ NotPseudo(Found[i].data.cFileName)
            /\ BitAnd(Found[i].data.dwFileAttributes, convert_attrs(args[3])) = args[2]
            /\ WellFormed(Found[i].data.cFileName)})

\* A completed listing of three entries under a mask that selects bits,
\* which kept the first and the last entry and dropped the one between.
C4_Witness ==
    /\ ListingCompleted
    /\ Len(Found) = 3
    /\ args[3] # 0
    /\ Len(ret.items) = 2
    /\ ret.items[1] = Joined(Found[1].data.cFileName)
    /\ ret.items[2] = Joined(Found[3].data.cFileName)
    /\ NotPseudo(Found[2].data.cFileName)

\* C5: when FindFirstFile fails with ERROR_FILE_NOT_FOUND the listing is the
\* empty array and the error SUCCESS; when it fails with another code the
\* listing is NULL and the error that code.
C5_NoFilesIsNotAnError ==
    op = "GetFileSystemEntries" /\ ~Natives[1].ok =>
        IF Natives[1].err = ERROR_FILE_NOT_FOUND
        THEN ret = Array(<<>>) /\ error = ERROR_SUCCESS
        ELSE ret = NullArray /\ error = Natives[1].err

\* FindFirstFile found no file while the last-error slot held the code of
\* an earlier failure.
C5_Witness ==
    /\ op = "GetFileSystemEntries"
    /\ ~Natives[1].ok
    /\ Natives[1].err = ERROR_FILE_NOT_FOUND
    /\ ret = Array(<<>>)
    /\ error = ERROR_SUCCESS
    /\ lastError = ERROR_FILE_NOT_FOUND

\* Read and Write: the guarded case, and what is returned otherwise.
IsTransfer == op \in {"Read", "Write"}
GuardedTransfer ==
    IsTransfer /\ args.offset + args.count > args.length =>
        ret = 0 /\ error = ERROR_SUCCESS /\ Natives = <<>>
TransferReturn ==
    IsTransfer /\ Natives # <<>> =>
        IF Natives[1].ok
        THEN ret = Natives[1].data /\ error = ERROR_SUCCESS
        ELSE ret = -1 /\ error = Natives[1].err

\* C6: Read and Write return 0 with SUCCESS and without a native call when
\* offset + count exceeds the length of the array; a native failure gives
\* -1 and the error, a native success the count of bytes transferred.
C6_TransferGuardAndReturn == GuardedTransfer /\ TransferReturn

\* C13: whenever Read or Write issues its native ReadFile / WriteFile call,
\* the region it hands over lies inside the array: the offset and the count
\* are not negative and offset + count is at most the length of the array.
C13_TransferInsideBuffer ==
    IsTransfer /\ Natives # <<>> =>
        /\ 0 <= args.offset
        /\ 0 <= args.count
        /\ args.offset + args.count <= args.length

\* SetLength: the calls it may make, in order, with their arguments.
SavedPosition == Natives[1].data
SetLengthStep(i) ==
    CASE i = 1 -> [fn |-> "SetFilePointer", arg |-> <<0, 0, FILE_CURRENT>>]
      [] i = 2 -> [fn |-> "SetFilePointer",
                   arg |-> <<args.length % WordMod,
                             ToS32((args.length - (args.length % WordMod)) \div WordMod),
                             FILE_BEGIN>>]
      [] i = 3 -> [fn |-> "SetEndOfFile", arg |-> <<>>]
      [] i = 4 -> [fn |-> "SetFilePointer",
                   arg |-> <<SavedPosition[1], SavedPosition[2], FILE_BEGIN>>]
\* The 64-bit position a successful SetFilePointer reported.
PositionOf(e) == e.data[2] * WordMod + e.data[1]

\* C7: SetLength makes its native calls in the order save position, seek to
\* length, set end of file, restore position; the first call that fails is
\* the last one made, and the icall returns FALSE with its error; when the
\* seek to length or the set-end-of-file call fails, the position is where
\* the last successful seek left it.
C7_SetLengthStopsAtFirstFailure ==
    op = "SetLength" =>
        /\ Len(Natives) \in 1 .. 4
        /\ \A i \in 1 .. Len(Natives) :
               /\ Natives[i].fn = SetLengthStep(i).fn
               /\ Natives[i].arg = SetLengthStep(i).arg
               /\ ~Natives[i].ok =>
                      i = Len(Natives) /\ ret = FALSE /\ error = Natives[i].err
        /\ Len(Natives) = 2 /\ ~Natives[2].ok => fpos = PositionOf(Natives[1])
        /\ Len(Natives) = 3 /\ ~Natives[3].ok => fpos = PositionOf(Natives[2])

\* SetEndOfFile failed after the position was moved off the saved one.
C7_Witness ==
    /\ op = "SetLength"
    /\ Len(Natives) = 3
    /\ ~Natives[3].ok
    /\ fpos = args.length
    /\ fpos # PositionOf(Natives[1])
    /\ ret = FALSE
    /\ error = Natives[3].err

\* SetLength made its four native calls and each of them succeeded.
AllFourSucceeded ==
    /\ op = "SetLength"
    /\ Len(Natives) = 4
    /\ \A i \in 1 .. 4 : Natives[i].ok

\* C12: a SetLength whose four native calls all succeed returns TRUE with
\* error SUCCESS, leaves the file with the requested 64-bit length, and
\* leaves the 64-bit file position, low and high half, where it was before
\* the call, also when that position lies beyond the new length.
C12_SetLengthSuccessKeepsPosition ==
    [][AllFourSucceeded' =>
           /\ ret' = TRUE
           /\ error' = ERROR_SUCCESS
           /\ flen' = args'.length
           /\ fpos' = fpos
           /\ LowWord(fpos') = LowWord(fpos)
           /\ HighWordS(fpos') = HighWordS(fpos)]_vars

\* A file truncated below a position whose high half is not zero.
C12_Witness ==
    /\ AllFourSucceeded
    /\ ret = TRUE
    /\ flen = args.length
    /\ fpos > flen
    /\ HighWordS(fpos) # 0
    /\ fpos = PositionOf(Natives[1])

\* SetFileTime: one tick argument, the pointer passed for it and the
\* timestamp before and after the step.
TimeKept(tick, passed, before, after) ==
    IF tick < 0 THEN passed = <<>> /\ after = before
    ELSE /\ passed = <<tick \div WordMod, tick % WordMod>>
         /\ after = IF ret' THEN tick ELSE before

\* C8: SetFileTime passes a negative tick argument as "no update" and that
\* timestamp is unchanged, and passes a non-negative one as that value; the
\* timestamps GetFileStat reports for the file are the ones the file holds,
\* so that after a call with three negative arguments it reports the values
\* from before the call.
C8_NegativeTickLeavesTimestamp ==
    [][/\ op' = "SetFileTime" =>
            /\ TimeKept(args'.creation, Natives'[1].arg[1],
                        ftime.creation, ftime'.creation)
            /\ TimeKept(args'.access, Natives'[1].arg[2],
                        ftime.access, ftime'.access)
            /\ TimeKept(args'.write, Natives'[1].arg[3],
                        ftime.write, ftime'.write)
       /\ op' # "SetFileTime" => ftime' = ftime
       /\ op' = "GetFileStat" /\ args' = <<TheFile>> /\ ret'.result =>
            /\ ret'.stat.creation_time = ftime.creation
            /\ ret'.stat.last_access_time = ftime.access
            /\ ret'.stat.last_write_time = ftime.write
      ]_vars

\* SetFileTime succeeded with a negative creation time and a last-write
\* time on a file whose creation time had been set before.
C8_Witness ==
    /\ op = "SetFileTime"
    /\ ret = TRUE
    /\ args.creation < 0
    /\ args.access < 0
    /\ args.write = SomeTime
    /\ ftime.creation = SomeTime
    /\ ftime.access = 0
    /\ ftime.write = SomeTime

\* FileShare translation: a bit of a value, and the bits above Delete.
HasBit(m, b) == (m \div b) % 2 = 1
ForeignShareBits(m) == m \div 8

\* C9: convert_share gives the OR of the native bits of Read, Write and
\* Delete for a value made of these bits only, and 0 for a value with any
\* other bit set.
C9_ShareIsOrOfKnownBitsOrZero ==
    op = "convert_share" =>
        LET m == args[1] IN
        IF ForeignShareBits(m) # 0 THEN ret = 0
        ELSE ret = (IF HasBit(m, 1) THEN FILE_SHARE_READ ELSE 0)
                       + (IF HasBit(m, 2) THEN FILE_SHARE_WRITE ELSE 0)
                       + (IF HasBit(m, 4) THEN FILE_SHARE_DELETE ELSE 0)

\* Read and Write together with a bit that is no share bit: no sharing.
C9_Witness ==
    /\ op = "convert_share"
    /\ args[1] = FileShare_Read + FileShare_Write + 16
    /\ ret = 0

\* Path remapping: the remapper calls, the allocation and the release of
\* the buffer in the trace, and the path the operation went on with.
IsRemapEvent(e) == e.fn \in {"RemapPathFunc", "g_new", "g_free (buf)"}
RemapEvents == SelectSeq(calls, IsRemapEvent)
Remapping == op \in {"RemapPath", "DeleteFile"}
PathUsed ==
    IF op = "RemapPath" THEN (IF ret.result THEN ret.new_path ELSE args[1])
    ELSE Natives[1].arg
CutAtTerminator(buf) ==
    LET k == CHOOSE k \in 0 .. Len(buf) :
                 /\ \A j \in 1 .. k : buf[j] # 0
                 /\ k < Len(buf) => buf[k + 1] = 0
    IN  SubSeq(buf, 1, k)
\* The steps of the protocol up to the result, which content gives.
RemapProtocol(content(_)) ==
    IF g_RemapPathFunc = NoFunc
    THEN RemapEvents = <<>> /\ PathUsed = args[1]
    ELSE /\ RemapEvents # <<>>
         /\ RemapEvents[1].fn = "RemapPathFunc"
         /\ RemapEvents[1].arg.buffer = "NULL"
         /\ RemapEvents[1].arg.buffer_len = 0
         /\ IF RemapEvents[1].data = <<0>>
            THEN Len(RemapEvents) = 1 /\ PathUsed = args[1]
            ELSE /\ Len(RemapEvents) = 4
                 /\ RemapEvents[2].fn = "g_new"
                 /\ RemapEvents[2].arg = RemapEvents[1].data
                 /\ RemapEvents[3].fn = "RemapPathFunc"
                 /\ RemapEvents[3].arg.buffer = "buf"
                 /\ RemapEvents[3].arg.buffer_len = RemapEvents[1].data[1]
                 /\ RemapEvents[4].fn = "g_free (buf)"
                 /\ PathUsed = content(CutAtTerminator(RemapEvents[3].data))
ContentAlways(bytes) == mono_string_new_len(bytes)
ContentIfString(bytes) ==
    IF mono_string_new_len(bytes) = NULL THEN args[1]
    ELSE mono_string_new_len(bytes)

\* C10 as stated: without a registered function nothing is invoked and the
\* path is unchanged; with one, it is first called with no buffer and
\* capacity 0; a size of 0 means the original path and no second call;
\* otherwise a buffer of that size is allocated, filled by a second call
\* and freed once, and the result is its content cut at the first
\* terminator.
C10_ResultIsBufferContent == Remapping => RemapProtocol(ContentAlways)

\* C10 as amended: the same, with the result being the content cut at the
\* first terminator (all of it when it holds none) when that is a UTF-8
\* string, and the original path when it is not.
C10_ResultIsBufferContentIfString == Remapping => RemapProtocol(ContentIfString)

\* DeleteFile went on with a remapped path that the terminator cut out of
\* a longer buffer.
C10_Witness ==
    /\ op = "DeleteFile"
    /\ g_RemapPathFunc = "slack"
    /\ args[1] = <<233, SEP>>
    /\ Len(RemapEvents) = 4
    /\ Len(RemapEvents[3].data) = RemapEvents[1].data[1]
    /\ Natives[1].arg = <<115, 233, SEP>>

\* Open: the CreateFile call, what the attribute query before it found,
\* and the flags the options alone give.
CreateFileCall == Natives[Len(Natives)]
PrecheckFound ==
    IF Natives[1].ok THEN <<Natives[1].data.dwFileAttributes>>
    ELSE IF Natives[2].fn = "FindFirstFile" /\ Natives[2].ok
    THEN <<Natives[2].data.dwFileAttributes>>
    ELSE <<>>
PrecheckSaysDirectory ==
    /\ PrecheckFound # <<>>
    /\ (PrecheckFound[1] \div FILE_ATTRIBUTE_DIRECTORY) % 2 = 1
FlagOfOption(o) ==
    CASE o = "FileOptions_Encrypted" -> "FILE_ATTRIBUTE_ENCRYPTED"
      [] o = "FileOptions_DeleteOnClose" -> "FILE_FLAG_DELETE_ON_CLOSE"
      [] o = "FileOptions_SequentialScan" -> "FILE_FLAG_SEQUENTIAL_SCAN"
      [] o = "FileOptions_RandomAccess" -> "FILE_FLAG_RANDOM_ACCESS"
      [] o = "FileOptions_Temporary" -> "FILE_ATTRIBUTE_TEMPORARY"
      [] o = "FileOptions_Asynchronous" -> "FILE_FLAG_OVERLAPPED"
      [] o = "FileOptions_WriteThrough" -> "FILE_FLAG_WRITE_THROUGH"
FlagsOfOptions(options) ==
    {FlagOfOption(o) : o \in options \ {"FileOptions_Other"}}
        \cup (IF "FileOptions_Encrypted" \in options THEN {}
              ELSE {"FILE_ATTRIBUTE_NORMAL"})

\* C11: the attributes word Open hands to CreateFile has
\* FILE_FLAG_BACKUP_SEMANTICS exactly when the attribute query on the
\* remapped path succeeded and reported a directory, whatever the options;
\* its other flags are the ones the options give.
C11_DirectoryFlagIffPrecheckSaysDirectory ==
    op = "Open" =>
        /\ CreateFileCall.fn = "CreateFile"
        /\ Natives[1].fn = "GetFileAttributes"
        /\ Natives[1].arg = CreateFileCall.arg.name
        /\ CreateFileCall.arg.name
               = get_remapped_path(g_RemapPathFunc, args.filename).path
        /\ "FILE_FLAG_BACKUP_SEMANTICS" \in CreateFileCall.arg.attributes
               <=> PrecheckSaysDirectory
        /\ CreateFileCall.arg.attributes \ {"FILE_FLAG_BACKUP_SEMANTICS"}
               = FlagsOfOptions(args.options)

\* Open of a remapped path with two options, where the attribute query
\* went through the fallback and found a directory.
C11_Witness ==
    /\ op = "Open"
    /\ g_RemapPathFunc = "slack"
    /\ args.options = {"FileOptions_Encrypted", "FileOptions_WriteThrough"}
    /\ ~Natives[1].ok
    /\ PrecheckSaysDirectory
    /\ CreateFileCall.arg.attributes
           = {"FILE_ATTRIBUTE_ENCRYPTED", "FILE_FLAG_WRITE_THROUGH",
              "FILE_FLAG_BACKUP_SEMANTICS"}

\* C14: within one remap_path call no call goes through a null
\* g_RemapPathFunc, and the size query and the fill call go to the same
\* function, so that the buffer of the fill call has the size that function
\* reported, also when mono_unity_register_path_remapper runs in another
\* thread during the call.
C14_OneFunctionPerRemapCall ==
    /\ \A i \in 1 .. Len(frame.invoked) : frame.invoked[i] # NoFunc
    /\ Len(frame.invoked) = 2 =>
           /\ frame.invoked[2] = frame.invoked[1]
           /\ frame.len = RemapSize(frame.invoked[2], frame.utf8_path)

====
